---- MODULE Spec2Model ----
(***************************************************************************)
(* Model of two UX controls:                                               *)
(*   - UGrabbableComponent (grab-pointer bookkeeping, GrabbableComponent)  *)
(*   - AUxtPressableButtonActor (pulse / focus animation of a button)      *)
(* Both are single-threaded: every handler runs to completion, so each     *)
(* handler is one action.                                                  *)
(***************************************************************************)
EXTENDS Integers, Sequences, FiniteSets

\* ---------------------------------------------------------------- bounds
\* Longest GrabPointers array explored.
MaxGrabs == 3
\* Largest value of the world clock (GetWorld()->GetTimeSeconds()).
MaxTime == 2

\* The touch pointers of the scene (UTouchPointer objects), e.g. one per hand.
Pointers == {"PointerA", "PointerB"}

VARIABLES
    \* ---- UGrabbableComponent
    GrabPointers,          \* TArray<FGrabPointerData>
    bTickOnlyWhileGrabbed, \* bool
    PrimaryComponentTick,  \* is the component's tick function enabled
    HoverLocked,           \* per pointer: UTouchPointer hover lock flag
    WorldTime,             \* GetWorld()->GetTimeSeconds()
    PointerLocation,       \* per pointer: its component transform (1-D)
    ComponentLocation,     \* the grabbable's component transform (1-D)
    Broadcasts,            \* delegate broadcasts made by the last handler
    GrabBalance,           \* per pointer: begin-grab minus end-grab broadcasts so far
    Grasping,              \* per pointer: was its last call GraspStarted
    grabCall               \* the last handler that ran, its arguments and the state it found

grabVars == <<GrabPointers, bTickOnlyWhileGrabbed, PrimaryComponentTick, HoverLocked,
              WorldTime, PointerLocation, ComponentLocation, Broadcasts, GrabBalance,
              Grasping, grabCall>>

VARIABLES
    \* ---- AUxtPressableButtonActor
    PulseTimer,             \* float, fixed point (One is 1.0); NotRunning when idle
    PulseFadeTimer,         \* float, fixed point; NotRunning when idle
    FocusTimer,             \* float, fixed point
    MaterialIndex,          \* 0 (right-hand parameter set) or 1 (left-hand set)
    PrePulseMaterial,       \* UMaterialInterface*
    PulseMaterialInstance,  \* UMaterialInstanceDynamic*
    FrontPlateSlot0,        \* FrontPlateMeshComponent's material in slot 0
    ButtonBrush,            \* FUxtButtonBrush (the fields the animation reads)
    bActorTickEnabled,      \* is the actor's tick enabled
    ButtonState,            \* ButtonComponent->GetState()
    btnCall                 \* the last handler that ran, with its arguments and results

btnVars == <<PulseTimer, PulseFadeTimer, FocusTimer, MaterialIndex, PrePulseMaterial,
             PulseMaterialInstance, FrontPlateSlot0, ButtonBrush, bActorTickEnabled,
             ButtonState, btnCall>>

VARIABLES
    \* ---- callers of the grab queries (UGrabPointerDataFunctionLibrary, Find, centroids)
    queryCall               \* the last query that ran, its arguments and its outcome

qryVars == <<queryCall>>

VARIABLES
    \* ---- AUxtPressableButtonActor: icon, label and front plate visibility
    IconBrush,              \* FUxtIconBrush (the colours of its TextBrush)
    LabelTextBrush,         \* FUxtTextBrush (its colours)
    IconTextRenderColor,    \* IconComponent's text render colour
    LabelTextRenderColor,   \* LabelComponent's text render colour
    FrontPlateVisibility,   \* FrontPlateMeshComponent's visibility
    visCall                 \* the last of these handlers that ran

visVars == <<IconBrush, LabelTextBrush, IconTextRenderColor, LabelTextRenderColor,
             FrontPlateVisibility, visCall>>

vars == <<grabVars, btnVars, qryVars, visVars>>

\* ------------------------------------------------------- grabbable: helpers

\* Transforms are kept on one axis: a location along the axis and a rotation
\* about it, counted in quarter turns.
Turn == 4

\* FTransform / FVector::ZeroVector / FRotator::ZeroRotator / FTransform::Identity.
MakeTransform(Location, Rotation) == [Location |-> Location, Rotation |-> Rotation]
ZeroVector == 0
ZeroRotator == 0
Identity == MakeTransform(ZeroVector, ZeroRotator)

\* FTransform::operator* : A * B applies A first, then B.
Compose(A, B) ==
    MakeTransform(A.Location + B.Location, (A.Rotation + B.Rotation) % Turn)

\* FTransform::Inverse.
Inverse(T) == MakeTransform(0 - T.Location, (Turn - T.Rotation) % Turn)

\* The rotation of each touch pointer (the pointers slide but do not turn).
PointerRotation == [p \in Pointers |-> IF p = "PointerA" THEN 1 ELSE 3]

\* Pointer->GetComponentTransform() of a live pointer.
PointerTransform(Pointer) ==
    MakeTransform(PointerLocation[Pointer], PointerRotation[Pointer])

\* GetComponentTransform() of the grabbable component.
ComponentTransform == MakeTransform(ComponentLocation, ZeroRotator)

\* FGrabPointerData filled in by GraspStarted.
MakeGrabPointerData(Pointer) ==
    [Pointer |-> Pointer,
     StartTime |-> WorldTime,
     LocalGrabPoint |-> Compose(PointerTransform(Pointer), Inverse(ComponentTransform))]

\* The data a caller passes in when it has no record yet.
NoData == [Pointer |-> "None", StartTime |-> 0, LocalGrabPoint |-> Identity]

\* TArray::Add: append at the end.
AddGrabPointer(arr, data) == Append(arr, data)

\* An array with its element at index i replaced by its last and shortened by one
\* (TArray::RemoveAtSwap).
RemoveAtSwap(arr, i) ==
    [k \in 1..(Len(arr) - 1) |-> IF k = i THEN arr[Len(arr)] ELSE arr[k]]

RECURSIVE RemoveAllSwapFrom(_, _, _)
RemoveAllSwapFrom(arr, Pointer, i) ==
    IF i > Len(arr) THEN arr
    ELSE IF arr[i].Pointer = Pointer
         THEN RemoveAllSwapFrom(RemoveAtSwap(arr, i), Pointer, i)
         ELSE RemoveAllSwapFrom(arr, Pointer, i + 1)

\* RemoveAllGrabs had it been written with TArray::RemoveAllSwap, which does not
\* keep the order of the remaining elements.
RemoveAllSwapGrabs(arr, Pointer) == RemoveAllSwapFrom(arr, Pointer, 1)

\* TArray::RemoveAll with the predicate data.Pointer == Pointer: the matching
\* elements are removed, the others keep their relative order.
RemoveAllGrabs(arr, Pointer) == SelectSeq(arr, LAMBDA d : d.Pointer # Pointer)

\* The elements the RemoveAll predicate returned true for, in array order.
MatchingGrabs(arr, Pointer) == SelectSeq(arr, LAMBDA d : d.Pointer = Pointer)

\* UpdateComponentTickEnabled without its test of bTickOnlyWhileGrabbed.
UpdateComponentTickEnabledAlways(flag, arr, tick) == Len(arr) > 0

\* UpdateComponentTickEnabled: the tick state it leaves.
UpdateComponentTickEnabled(flag, arr, tick) ==
    IF flag THEN Len(arr) > 0 ELSE tick

\* OnBeginGrab broadcast after UpdateComponentTickEnabled instead of before it.
BeginGrabEventAfterUpdate(data, arr, tick) ==
    [delegate |-> "OnBeginGrab",
     data |-> data,
     recorded |-> \E i \in 1..Len(arr) : arr[i] = data,
     tickSeen |-> UpdateComponentTickEnabled(bTickOnlyWhileGrabbed, arr, tick)]

\* OnBeginGrab.Broadcast(this, data): what an observer sees when it is called.
BeginGrabEvent(data, arr, tick) ==
    [delegate |-> "OnBeginGrab",
     data |-> data,
     recorded |-> \E i \in 1..Len(arr) : arr[i] = data,
     tickSeen |-> tick]

\* OnEndGrab.Broadcast(this, data), from inside the RemoveAll predicate.
EndGrabEvent(data, tick) ==
    [delegate |-> "OnEndGrab",
     data |-> data,
     tickSeen |-> tick]

\* Pointer->SetHoverLocked(true) of GraspStarted.
BeginGrabLocks(locks, Pointer) == [locks EXCEPT ![Pointer] = TRUE]

\* GraspEnded without its SetHoverLocked(false).
EndGrabLocksKept(locks, removed, Pointer) == locks

\* Pointer->SetHoverLocked(false), called by the RemoveAll predicate for each
\* record it matches.
EndGrabLocks(locks, removed, Pointer) ==
    IF Len(removed) > 0 THEN [locks EXCEPT ![Pointer] = FALSE] ELSE locks

\* Broadcasts of one delegate about one pointer among those of a handler.
CountBroadcasts(events, delegate, Pointer) ==
    Cardinality({i \in 1..Len(events) :
                    events[i].delegate = delegate /\ events[i].data.Pointer = Pointer})

\* The begin-grab minus end-grab count of every pointer after a handler's broadcasts.
BalanceAfter(balance, events) ==
    [p \in Pointers |-> balance[p] + CountBroadcasts(events, "OnBeginGrab", p)
                                   - CountBroadcasts(events, "OnEndGrab", p)]

GrabCall(op, Pointer, bEnable) ==
    [op |-> op, Pointer |-> Pointer, bEnable |-> bEnable,
     tickBefore |-> PrimaryComponentTick,
     before |-> GrabPointers,
     lockedBefore |-> HoverLocked]

\* GetPrimaryGrabPointer(Valid, PointerData): PointerData is an out parameter,
\* left as the caller had it when there is no record.
GetPrimaryGrabPointer(CallerData) ==
    IF Len(GrabPointers) >= 1
    THEN [Valid |-> TRUE, PointerData |-> GrabPointers[1]]
    ELSE [Valid |-> FALSE, PointerData |-> CallerData]

GetSecondaryGrabPointer(CallerData) ==
    IF Len(GrabPointers) >= 2
    THEN [Valid |-> TRUE, PointerData |-> GrabPointers[2]]
    ELSE [Valid |-> FALSE, PointerData |-> CallerData]

\* ------------------------------------------------------- grabbable: actions

InitGrabbable ==
    /\ GrabPointers = <<>>
    /\ bTickOnlyWhileGrabbed \in BOOLEAN
    /\ PrimaryComponentTick \in BOOLEAN
    /\ HoverLocked = [p \in Pointers |-> FALSE]
    /\ WorldTime = 0
    /\ PointerLocation = [p \in Pointers |-> IF p = "PointerA" THEN 1 ELSE 2]
    /\ ComponentLocation = 0
    /\ Broadcasts = <<>>
    /\ GrabBalance = [p \in Pointers |-> 0]
    /\ Grasping = [p \in Pointers |-> FALSE]
    /\ grabCall = GrabCall("None", "None", FALSE)

\* The world clock moves on between handler calls.
AdvanceTime ==
    /\ WorldTime < MaxTime
    /\ WorldTime' = WorldTime + 1
    /\ grabCall' = GrabCall("AdvanceTime", "None", FALSE)
    /\ UNCHANGED <<GrabPointers, bTickOnlyWhileGrabbed, PrimaryComponentTick, HoverLocked,
                   PointerLocation, ComponentLocation, Broadcasts, GrabBalance, Grasping>>
    /\ UNCHANGED <<btnVars, qryVars, visVars>>

GraspStarted_Implementation(Pointer) ==
    LET data == MakeGrabPointerData(Pointer)
        added == AddGrabPointer(GrabPointers, data)
    IN  /\ Len(GrabPointers) < MaxGrabs
        /\ GrabPointers' = added
        /\ HoverLocked' = BeginGrabLocks(HoverLocked, Pointer)
        /\ Broadcasts' = <<BeginGrabEvent(data, added, PrimaryComponentTick)>>
        /\ GrabBalance' = BalanceAfter(GrabBalance, Broadcasts')
        /\ Grasping' = [Grasping EXCEPT ![Pointer] = TRUE]
        /\ PrimaryComponentTick' =
               UpdateComponentTickEnabled(bTickOnlyWhileGrabbed, added, PrimaryComponentTick)
        /\ grabCall' = GrabCall("GraspStarted", Pointer, FALSE)
        /\ UNCHANGED <<bTickOnlyWhileGrabbed, WorldTime, PointerLocation, ComponentLocation>>
        /\ UNCHANGED <<btnVars, qryVars, visVars>>

GraspEnded_Implementation(Pointer) ==
    LET removed == MatchingGrabs(GrabPointers, Pointer)
        kept == RemoveAllGrabs(GrabPointers, Pointer)
    IN  /\ GrabPointers' = kept
        /\ HoverLocked' = EndGrabLocks(HoverLocked, removed, Pointer)
        /\ Broadcasts' = [i \in 1..Len(removed) |->
                              EndGrabEvent(removed[i], PrimaryComponentTick)]
        /\ GrabBalance' = BalanceAfter(GrabBalance, Broadcasts')
        /\ Grasping' = [Grasping EXCEPT ![Pointer] = FALSE]
        /\ PrimaryComponentTick' =
               UpdateComponentTickEnabled(bTickOnlyWhileGrabbed, kept, PrimaryComponentTick)
        /\ grabCall' = GrabCall("GraspEnded", Pointer, FALSE)
        /\ UNCHANGED <<bTickOnlyWhileGrabbed, WorldTime, PointerLocation, ComponentLocation>>
        /\ UNCHANGED <<btnVars, qryVars, visVars>>

SetTickOnlyWhileGrabbed(bEnable) ==
    /\ bTickOnlyWhileGrabbed' = bEnable
    /\ PrimaryComponentTick' =
           IF bEnable
           THEN UpdateComponentTickEnabled(bEnable, GrabPointers, PrimaryComponentTick)
           ELSE TRUE
    /\ Broadcasts' = <<>>
    /\ grabCall' = GrabCall("SetTickOnlyWhileGrabbed", "None", bEnable)
    /\ UNCHANGED <<GrabPointers, HoverLocked, WorldTime, PointerLocation, ComponentLocation,
                   GrabBalance, Grasping>>
    /\ UNCHANGED <<btnVars, qryVars, visVars>>

GraspStartedStep == \E p \in Pointers : GraspStarted_Implementation(p)
GraspEndedStep == \E p \in Pointers : GraspEnded_Implementation(p)
SetTickOnlyWhileGrabbedStep == \E b \in BOOLEAN : SetTickOnlyWhileGrabbed(b)

NextGrab ==
    \/ AdvanceTime
    \/ GraspStartedStep
    \/ GraspEndedStep
    \/ SetTickOnlyWhileGrabbedStep


\* ------------------------------------------------------- button: helpers

\* Fixed point: the float 1.0. Timers, times and speeds are multiples of 1/One.
One == 4
\* The "not running" marker of the two pulse timers.
NotRunning == -1
\* Largest DeltaTime of a frame explored (in 1/One seconds).
MaxDeltaTime == 2

DeltaTimes == 0..MaxDeltaTime

\* Materials: an asset has no parent, a dynamic instance names its parent.
NullMaterial == [Name |-> "None", Parent |-> "None"]
Asset(n) == [Name |-> n, Parent |-> "None"]

\* UPrimitiveComponent::CreateDynamicMaterialInstance(0, Source, Name): the new
\* instance, which the call also puts in slot 0.
CreateDynamicMaterialInstance(Source, Name) == [Name |-> Name, Parent |-> Source.Name]

\* The name tables, indexed by MaterialIndex (0 or 1).
PulseInstanceNames(i) == IF i = 0 THEN "RightPulse" ELSE "LeftPulse"
PulseInstanceFadeNames(i) == IF i = 0 THEN "RightPulseFade" ELSE "LeftPulseFade"
PulsePositionNames(i) == IF i = 0 THEN "Blob_Position_2" ELSE "Blob_Position"
PulseValueNames(i) == IF i = 0 THEN "Blob_Pulse_2" ELSE "Blob_Pulse"
PulseFadeNames(i) == IF i = 0 THEN "Blob_Fade_2" ELSE "Blob_Fade"

\* The pointers a press can come from: none, or a pointer of one hand.
NullPointer == "Null"
ButtonPointers == {NullPointer, "Left", "Right"}

\* ButtonComponent->GetState().
ButtonStates == {"Default", "Focused", "Pressed"}

\* The button brushes explored: front plate material, pulse time, pulse fade
\* time and icon focus speed (times and speed in fixed point).
BrushChoices ==
    { <<"MatA", One, One, One>>,
      <<"MatB", 2, 2, 2 * One>>,
      <<"None", 0, -One, 0>>,
      <<"MatA", -One, 0, -One>> }

MakeBrush(c) ==
    [FrontPlateMaterial |-> IF c[1] = "None" THEN NullMaterial ELSE Asset(c[1]),
     FrontPlatePulseRightMaterial |-> Asset("PulseRightMat"),
     FrontPlatePulseLeftMaterial |-> Asset("PulseLeftMat"),
     PulseTime |-> c[2],
     PulseFadeTime |-> c[3],
     IconFocusSpeed |-> c[4]]

Brushes == { MakeBrush(c) : c \in BrushChoices }

\* A write to a scalar or vector parameter of a material instance.
ParameterWrite(instance, name, value) ==
    [Instance |-> instance, Parameter |-> name, Value |-> value]

\* IsPulsing(): a pulse is in progress (rising or fading).
IsPulsing == PulseTimer >= 0

\* A rate of zero: the timers do not advance.
PulseStepStalled(Time, DeltaTime) == 0

\* The rate with only a zero duration replaced by 1 second.
PulseStepNegative(Time, DeltaTime) ==
    (DeltaTime * One) \div (IF Time = 0 THEN One ELSE Time)

\* (1.f / ((Time <= 0) ? 1.f : Time)) * DeltaTime, in fixed point.
PulseStep(Time, DeltaTime) ==
    (DeltaTime * One) \div (IF Time <= 0 THEN One ELSE Time)

\* A clamp that forgets the upper limit.
ClampBelow(x, lo, hi) == IF x < lo THEN lo ELSE x

\* FMath::Clamp.
Clamp(x, lo, hi) == IF x < lo THEN lo ELSE IF x > hi THEN hi ELSE x

\* ConstructVisuals: the front plate material it leaves in slot 0.
ConstructVisuals(Brush, slot0) ==
    IF Brush.FrontPlateMaterial # NullMaterial THEN Brush.FrontPlateMaterial ELSE slot0

\* The hand test the wrong way round.
HandIndexSwapped(Pointer) == IF Pointer = "Left" THEN 0 ELSE 1

\* (Pointer->Hand == EControllerHand::Left) ? 1 : 0
HandIndex(Pointer) == IF Pointer = "Left" THEN 1 ELSE 0

\* Tick switching ticking off as soon as either animation is complete.
TickEnabledAfterTickEither(PulseComplete, FocusComplete, enabled) ==
    IF PulseComplete \/ FocusComplete THEN FALSE ELSE enabled

\* Tick's last statement: ticking is switched off when both animations are complete.
TickEnabledAfterTick(PulseComplete, FocusComplete, enabled) ==
    IF PulseComplete /\ FocusComplete THEN FALSE ELSE enabled

\* Where the pulse is, by the branch of AnimatePulse the next Tick takes.
PulsePhase ==
    IF PulseTimer > One THEN "fading"
    ELSE IF PulseTimer >= 0 THEN "rising"
    ELSE "idle"

\* BeginPulse's early return: nothing is changed.
PulseRejected ==
    [ret |-> FALSE,
     PulseTimer |-> PulseTimer,
     PulseFadeTimer |-> PulseFadeTimer,
     PrePulseMaterial |-> PrePulseMaterial,
     MaterialIndex |-> MaterialIndex,
     PulseMaterialInstance |-> PulseMaterialInstance,
     FrontPlateSlot0 |-> FrontPlateSlot0,
     bActorTickEnabled |-> bActorTickEnabled,
     writes |-> <<>>]

\* BeginPulse that does not take the material of slot 0 as the pre-pulse material.
StartPulseForgetful(Pointer) ==
    LET index == HandIndex(Pointer)
        source == IF index = 0 THEN ButtonBrush.FrontPlatePulseRightMaterial
                                  ELSE ButtonBrush.FrontPlatePulseLeftMaterial
        instance == CreateDynamicMaterialInstance(source, PulseInstanceNames(index))
    IN  [ret |-> TRUE,
         PulseTimer |-> 0,
         PulseFadeTimer |-> 0,
         PrePulseMaterial |-> PrePulseMaterial,
         MaterialIndex |-> index,
         PulseMaterialInstance |-> instance,
         FrontPlateSlot0 |-> instance,
         bActorTickEnabled |-> TRUE,
         writes |-> <<ParameterWrite(instance, PulsePositionNames(index), 0)>>]

\* BeginPulse past its early return: the pulse is set up and ticking is enabled.
StartPulse(Pointer) ==
    LET index == HandIndex(Pointer)
        source == IF index = 0 THEN ButtonBrush.FrontPlatePulseRightMaterial
                                  ELSE ButtonBrush.FrontPlatePulseLeftMaterial
        instance == CreateDynamicMaterialInstance(source, PulseInstanceNames(index))
    IN  [ret |-> TRUE,
         PulseTimer |-> 0,
         PulseFadeTimer |-> 0,
         PrePulseMaterial |-> FrontPlateSlot0,
         MaterialIndex |-> index,
         PulseMaterialInstance |-> instance,
         FrontPlateSlot0 |-> instance,
         bActorTickEnabled |-> TRUE,
         writes |-> <<ParameterWrite(instance, PulsePositionNames(index), 0)>>]

\* BeginPulse without the IsPulsing() test: a press restarts a running pulse.
BeginPulseRestart(Pointer) ==
    IF Pointer = NullPointer THEN PulseRejected ELSE StartPulse(Pointer)

\* BeginPulse(Pointer): its return value and the fields it leaves.
BeginPulse(Pointer) ==
    IF IsPulsing \/ Pointer = NullPointer THEN PulseRejected ELSE StartPulse(Pointer)

\* AnimatePulse without a fade: the pulse is over when the rising timer passes 1.
AnimatePulseSkipFade(DeltaTime) ==
    IF PulseTimer >= 0
    THEN LET timer == PulseTimer + PulseStep(ButtonBrush.PulseTime, DeltaTime)
             rise == ParameterWrite(PulseMaterialInstance,
                                    PulseValueNames(MaterialIndex), PulseTimer)
         IN  IF timer > One
             THEN [ret |-> TRUE,
                   PulseTimer |-> NotRunning,
                   PulseFadeTimer |-> NotRunning,
                   PulseMaterialInstance |-> NullMaterial,
                   FrontPlateSlot0 |-> PrePulseMaterial,
                   writes |-> <<rise>>]
             ELSE [ret |-> FALSE,
                   PulseTimer |-> timer,
                   PulseFadeTimer |-> PulseFadeTimer,
                   PulseMaterialInstance |-> PulseMaterialInstance,
                   FrontPlateSlot0 |-> FrontPlateSlot0,
                   writes |-> <<rise>>]
    ELSE [ret |-> TRUE,
          PulseTimer |-> PulseTimer,
          PulseFadeTimer |-> PulseFadeTimer,
          PulseMaterialInstance |-> PulseMaterialInstance,
          FrontPlateSlot0 |-> FrontPlateSlot0,
          writes |-> <<>>]

\* AnimatePulse(DeltaTime): its return value (pulse complete) and the fields it leaves.
AnimatePulse(DeltaTime) ==
    IF PulseTimer > One
    THEN IF PulseFadeTimer > One
         THEN [ret |-> TRUE,
               PulseTimer |-> NotRunning,
               PulseFadeTimer |-> NotRunning,
               PulseMaterialInstance |-> NullMaterial,
               FrontPlateSlot0 |-> PrePulseMaterial,
               writes |-> <<>>]
         ELSE [ret |-> FALSE,
               PulseTimer |-> PulseTimer,
               PulseFadeTimer |-> PulseFadeTimer
                                    + PulseStep(ButtonBrush.PulseFadeTime, DeltaTime),
               PulseMaterialInstance |-> PulseMaterialInstance,
               FrontPlateSlot0 |-> FrontPlateSlot0,
               writes |-> <<ParameterWrite(PulseMaterialInstance,
                                           PulseFadeNames(MaterialIndex), PulseFadeTimer)>>]
    ELSE IF PulseTimer >= 0
    THEN LET timer == PulseTimer + PulseStep(ButtonBrush.PulseTime, DeltaTime)
             rise == ParameterWrite(PulseMaterialInstance,
                                    PulseValueNames(MaterialIndex), PulseTimer)
             fade == CreateDynamicMaterialInstance(PrePulseMaterial,
                                                   PulseInstanceFadeNames(MaterialIndex))
         IN  IF timer > One
             THEN [ret |-> FALSE,
                   PulseTimer |-> timer,
                   PulseFadeTimer |-> 0,
                   PulseMaterialInstance |-> fade,
                   FrontPlateSlot0 |-> fade,
                   writes |-> <<rise, ParameterWrite(fade, PulseFadeNames(MaterialIndex), 0)>>]
             ELSE [ret |-> FALSE,
                   PulseTimer |-> timer,
                   PulseFadeTimer |-> PulseFadeTimer,
                   PulseMaterialInstance |-> PulseMaterialInstance,
                   FrontPlateSlot0 |-> FrontPlateSlot0,
                   writes |-> <<rise>>]
    ELSE [ret |-> TRUE,
          PulseTimer |-> PulseTimer,
          PulseFadeTimer |-> PulseFadeTimer,
          PulseMaterialInstance |-> PulseMaterialInstance,
          FrontPlateSlot0 |-> FrontPlateSlot0,
          writes |-> <<>>]

\* AnimateFocus with the speed not negated when the button is not focused.
AnimateFocusNoDecay(DeltaTime) ==
    LET timer == Clamp(FocusTimer + ((DeltaTime * ButtonBrush.IconFocusSpeed) \div One),
                       0, One)
    IN  [ret |-> timer = 0, FocusTimer |-> timer]

\* AnimateFocus(DeltaTime): its return value (focus complete) and the timer it leaves.
AnimateFocus(DeltaTime) ==
    LET IsFocused == ButtonState = "Focused"
        FocusSpeed == ButtonBrush.IconFocusSpeed * (IF IsFocused THEN 1 ELSE -1)
        timer == Clamp(FocusTimer + ((DeltaTime * FocusSpeed) \div One), 0, One)
    IN  [ret |-> timer = 0, FocusTimer |-> timer]

\* ------------------------------------------------------- button: actions

NoCall ==
    [op |-> "None", Pointer |-> NullPointer, DeltaTime |-> 0, ret |-> FALSE,
     PulseComplete |-> FALSE, FocusComplete |-> FALSE, writes |-> <<>>]

\* The timers as the actor is created: no pulse running, focus animation at rest.
InitTimers ==
    /\ PulseTimer = NotRunning
    /\ PulseFadeTimer = NotRunning
    /\ FocusTimer = 0

\* The constructor and OnConstruction (ConstructVisuals) for some brush.
InitButton ==
    /\ InitTimers
    /\ MaterialIndex = 0
    /\ PrePulseMaterial = NullMaterial
    /\ PulseMaterialInstance = NullMaterial
    /\ ButtonBrush \in Brushes
    /\ FrontPlateSlot0 = ConstructVisuals(ButtonBrush, Asset("DefaultMat"))
    /\ bActorTickEnabled = FALSE
    /\ ButtonState = "Default"
    /\ btnCall = NoCall

Tick(DeltaTime) ==
    LET pulse == AnimatePulse(DeltaTime)
        focus == AnimateFocus(DeltaTime)
    IN  /\ bActorTickEnabled
        /\ PulseTimer' = pulse.PulseTimer
        /\ PulseFadeTimer' = pulse.PulseFadeTimer
        /\ PulseMaterialInstance' = pulse.PulseMaterialInstance
        /\ FrontPlateSlot0' = pulse.FrontPlateSlot0
        /\ FocusTimer' = focus.FocusTimer
        /\ bActorTickEnabled' = TickEnabledAfterTick(pulse.ret, focus.ret, bActorTickEnabled)
        /\ btnCall' = [NoCall EXCEPT !.op = "Tick", !.DeltaTime = DeltaTime,
                                     !.PulseComplete = pulse.ret,
                                     !.FocusComplete = focus.ret,
                                     !.writes = pulse.writes]
        /\ UNCHANGED <<MaterialIndex, PrePulseMaterial, ButtonBrush, ButtonState>>
        /\ UNCHANGED <<grabVars, qryVars, visVars>>

OnButtonPressed(Pointer) ==
    LET pulse == BeginPulse(Pointer)
    IN  /\ PulseTimer' = pulse.PulseTimer
        /\ PulseFadeTimer' = pulse.PulseFadeTimer
        /\ PrePulseMaterial' = pulse.PrePulseMaterial
        /\ MaterialIndex' = pulse.MaterialIndex
        /\ PulseMaterialInstance' = pulse.PulseMaterialInstance
        /\ FrontPlateSlot0' = pulse.FrontPlateSlot0
        /\ bActorTickEnabled' = pulse.bActorTickEnabled
        /\ btnCall' = [NoCall EXCEPT !.op = "OnButtonPressed", !.Pointer = Pointer,
                                     !.ret = pulse.ret, !.writes = pulse.writes]
        /\ UNCHANGED <<FocusTimer, ButtonBrush, ButtonState>>
        /\ UNCHANGED <<grabVars, qryVars, visVars>>

OnBeginFocus ==
    /\ bActorTickEnabled' = TRUE
    /\ btnCall' = [NoCall EXCEPT !.op = "OnBeginFocus"]
    /\ UNCHANGED <<PulseTimer, PulseFadeTimer, FocusTimer, MaterialIndex, PrePulseMaterial,
                   PulseMaterialInstance, FrontPlateSlot0, ButtonBrush, ButtonState>>
    /\ UNCHANGED <<grabVars, qryVars, visVars>>

SetButtonBrush(Brush) ==
    /\ ButtonBrush' = Brush
    /\ FrontPlateSlot0' = ConstructVisuals(Brush, FrontPlateSlot0)
    /\ btnCall' = [NoCall EXCEPT !.op = "SetButtonBrush"]
    /\ UNCHANGED <<PulseTimer, PulseFadeTimer, FocusTimer, MaterialIndex, PrePulseMaterial,
                   PulseMaterialInstance, bActorTickEnabled, ButtonState>>
    /\ UNCHANGED <<grabVars, qryVars, visVars>>

\* The button component changes state (the pointer moves on or off, presses, releases).
ButtonStateChanged(State) ==
    /\ ButtonState # State
    /\ ButtonState' = State
    /\ btnCall' = [NoCall EXCEPT !.op = "ButtonStateChanged"]
    /\ UNCHANGED <<PulseTimer, PulseFadeTimer, FocusTimer, MaterialIndex, PrePulseMaterial,
                   PulseMaterialInstance, FrontPlateSlot0, ButtonBrush, bActorTickEnabled>>
    /\ UNCHANGED <<grabVars, qryVars, visVars>>

TickStep == \E dt \in DeltaTimes : Tick(dt)
OnButtonPressedStep == \E p \in ButtonPointers : OnButtonPressed(p)
SetButtonBrushStep == \E b \in Brushes : SetButtonBrush(b)
ButtonStateChangedStep == \E s \in ButtonStates : ButtonStateChanged(s)

NextButton ==
    \/ TickStep
    \/ OnButtonPressedStep
    \/ OnBeginFocus
    \/ SetButtonBrushStep
    \/ ButtonStateChangedStep

\* ------------------------------------------------------- grab queries: helpers

\* Most records GrabPointers holds while the queries are explored.
MaxHeld == 2

\* Locations a touch pointer is moved to.
Locations == {3}

\* The transforms a caller passes to the grab queries.
Transforms == {Identity, MakeTransform(2, 1)}

\* ensure(PointerData.Pointer != nullptr): the pointer reference is live. A
\* failed ensure is counted in the Ensures field of what the query returns.
IsLive(PointerData) == PointerData.Pointer # NullPointer

\* Transform.TransformPosition(LocalGrabPoint.GetLocation()): a point on the axis
\* is turned onto itself and then moved.
GetGrabLocation(Transform, PointerData) ==
    Transform.Location + PointerData.LocalGrabPoint.Location

\* Transform.TransformRotation(LocalGrabPoint.GetRotation()).
GetGrabRotation(Transform, PointerData) ==
    (Transform.Rotation + PointerData.LocalGrabPoint.Rotation) % Turn

GetTargetLocation(PointerData) ==
    IF IsLive(PointerData)
    THEN [Value |-> PointerLocation[PointerData.Pointer], Ensures |-> 0]
    ELSE [Value |-> ZeroVector, Ensures |-> 1]

GetTargetRotation(PointerData) ==
    IF IsLive(PointerData)
    THEN [Value |-> PointerRotation[PointerData.Pointer], Ensures |-> 0]
    ELSE [Value |-> ZeroRotator, Ensures |-> 1]

GetTargetTransform(PointerData) ==
    IF IsLive(PointerData)
    THEN [Value |-> PointerTransform(PointerData.Pointer), Ensures |-> 0]
    ELSE [Value |-> Identity, Ensures |-> 1]

GetLocationOffset(Transform, PointerData) ==
    LET target == GetTargetLocation(PointerData)
    IN  [Value |-> target.Value - GetGrabLocation(Transform, PointerData),
         Ensures |-> target.Ensures]

\* FQuat(target rotation) * FQuat(grab rotation.GetInverse()).
GetRotationOffset(Transform, PointerData) ==
    LET target == GetTargetRotation(PointerData)
    IN  [Value |-> (target.Value + Turn - GetGrabRotation(Transform, PointerData)) % Turn,
         Ensures |-> target.Ensures]

\* FMath::Max.
Max(a, b) == IF a >= b THEN a ELSE b

\* The loop of GetGrabPointCentroid over the records from index i on.
RECURSIVE SumGrabLocations(_, _, _)
SumGrabLocations(Transform, arr, i) ==
    IF i > Len(arr) THEN ZeroVector
    ELSE GetGrabLocation(Transform, arr[i]) + SumGrabLocations(Transform, arr, i + 1)

GetGrabPointCentroid(Transform) ==
    [Value |-> SumGrabLocations(Transform, GrabPointers, 1) \div Max(Len(GrabPointers), 1),
     Ensures |-> 0]

\* The loop of GetTargetCentroid from index i on: the sum, and the ensures that failed.
RECURSIVE SumTargetLocations(_, _)
SumTargetLocations(arr, i) ==
    IF i > Len(arr) THEN [Value |-> ZeroVector, Ensures |-> 0]
    ELSE LET rest == SumTargetLocations(arr, i + 1)
         IN  IF IsLive(arr[i])
             THEN [Value |-> GetTargetLocation(arr[i]).Value + rest.Value,
                   Ensures |-> rest.Ensures]
             ELSE [Value |-> rest.Value, Ensures |-> rest.Ensures + 1]

\* A target centroid that forgets the division.
GetTargetCentroidUndivided == SumTargetLocations(GrabPointers, 1)

GetTargetCentroid ==
    LET sum == SumTargetLocations(GrabPointers, 1)
    IN  [Value |-> sum.Value \div Max(Len(GrabPointers), 1), Ensures |-> sum.Ensures]

\* The loop of FindGrabPointerInternal from (0-based) index i on.
RECURSIVE FindFrom(_, _)
FindFrom(Pointer, i) ==
    IF i >= Len(GrabPointers)
    THEN [Success |-> FALSE, OutData |-> NullPointer, OutIndex |-> -1]
    ELSE IF GrabPointers[i + 1].Pointer = Pointer
         THEN [Success |-> TRUE, OutData |-> GrabPointers[i + 1], OutIndex |-> i]
         ELSE FindFrom(Pointer, i + 1)

\* The same loop run from the last record down.
RECURSIVE FindDownFrom(_, _)
FindDownFrom(Pointer, i) ==
    IF i < 0
    THEN [Success |-> FALSE, OutData |-> NullPointer, OutIndex |-> -1]
    ELSE IF GrabPointers[i + 1].Pointer = Pointer
         THEN [Success |-> TRUE, OutData |-> GrabPointers[i + 1], OutIndex |-> i]
         ELSE FindDownFrom(Pointer, i - 1)

\* A lookup that reports the highest-index match.
FindGrabPointerInternalLast(Pointer) == FindDownFrom(Pointer, Len(GrabPointers) - 1)

FindGrabPointerInternal(Pointer) == FindFrom(Pointer, 0)

\* FindGrabPointer(Pointer, Success, PointerData, Index): PointerData is copied
\* from the record found and is otherwise left as the caller had it.
FindGrabPointer(Pointer, CallerData) ==
    LET found == FindGrabPointerInternal(Pointer)
    IN  [Success |-> found.Success,
         PointerData |-> IF found.Success THEN found.OutData ELSE CallerData,
         Index |-> found.OutIndex]

\* ResetLocalGrabPoint(PointerData): the outcomes it can have. The pointer is
\* dereferenced without a test; through a null reference that is undefined
\* behaviour: the call crashes, or goes on with whatever it read.
ResetLocalGrabPoint(PointerData) ==
    IF IsLive(PointerData)
    THEN { [Crashed |-> FALSE, NullDereferenced |-> FALSE, Ensures |-> 0,
            Value |-> [PointerData EXCEPT !.LocalGrabPoint =
                           Compose(PointerTransform(PointerData.Pointer),
                                   Inverse(ComponentTransform))]] }
    ELSE { [Crashed |-> TRUE, NullDereferenced |-> TRUE, Ensures |-> 0,
            Value |-> PointerData] }
         \cup { [Crashed |-> FALSE, NullDereferenced |-> TRUE, Ensures |-> 0,
                 Value |-> [PointerData EXCEPT !.LocalGrabPoint =
                                Compose(t, Inverse(ComponentTransform))]] :
                t \in Transforms }

\* ------------------------------------------------------- grab queries: actions

NoQuery ==
    [op |-> "None", Pointer |-> "None", Data |-> NoData, Transform |-> Identity,
     Value |-> 0, Ensures |-> 0, NullDereferenced |-> FALSE, Crashed |-> FALSE,
     Success |-> FALSE, Index |-> -1, PointerData |-> NoData]

InitQuery == queryCall = NoQuery

\* The records a caller can hold a copy of.
HeldData == { GrabPointers[i] : i \in 1..Len(GrabPointers) }

\* The caller of the last query has its result and goes on.
QueryIdle == queryCall = NoQuery

QueryUnchanged == UNCHANGED <<grabVars, btnVars, visVars>>

\* A query that tests the pointer before it reads it.
CheckedQuery(op, data, transform, result) ==
    /\ QueryIdle
    /\ queryCall' = [NoQuery EXCEPT !.op = op, !.Data = data, !.Transform = transform,
                                    !.Value = result.Value, !.Ensures = result.Ensures,
                                    !.NullDereferenced = FALSE]
    /\ QueryUnchanged

GetTargetStep ==
    \E data \in HeldData :
        \/ CheckedQuery("GetTargetLocation", data, Identity, GetTargetLocation(data))
        \/ CheckedQuery("GetTargetRotation", data, Identity, GetTargetRotation(data))
        \/ CheckedQuery("GetTargetTransform", data, Identity, GetTargetTransform(data))

GetOffsetStep ==
    \E data \in HeldData, t \in Transforms :
        \/ CheckedQuery("GetLocationOffset", data, t, GetLocationOffset(t, data))
        \/ CheckedQuery("GetRotationOffset", data, t, GetRotationOffset(t, data))

GetCentroidStep ==
    \/ \E t \in Transforms :
           CheckedQuery("GetGrabPointCentroid", NoData, t, GetGrabPointCentroid(t))
    \/ CheckedQuery("GetTargetCentroid", NoData, Identity, GetTargetCentroid)

FindGrabPointerStep ==
    \E p \in Pointers \cup {NullPointer} :
        LET found == FindGrabPointer(p, NoData)
        IN  /\ QueryIdle
            /\ queryCall' = [NoQuery EXCEPT !.op = "FindGrabPointer", !.Pointer = p,
                                            !.Success = found.Success,
                                            !.PointerData = found.PointerData,
                                            !.Index = found.Index]
            /\ QueryUnchanged

ResetLocalGrabPointStep ==
    \E data \in HeldData :
        \E outcome \in ResetLocalGrabPoint(data) :
            /\ QueryIdle
            /\ queryCall' = [NoQuery EXCEPT !.op = "ResetLocalGrabPoint", !.Data = data,
                                            !.Crashed = outcome.Crashed,
                                            !.NullDereferenced = outcome.NullDereferenced,
                                            !.Ensures = outcome.Ensures,
                                            !.PointerData = outcome.Value]
            /\ QueryUnchanged

\* The caller takes the result; a crashed process does not go on.
QueryReturn ==
    /\ ~QueryIdle
    /\ ~queryCall.Crashed
    /\ queryCall' = NoQuery
    /\ QueryUnchanged

\* A touch pointer is moved by its hand.
MovePointer(Pointer, Location) ==
    /\ QueryIdle
    /\ PointerLocation[Pointer] # Location
    /\ PointerLocation' = [PointerLocation EXCEPT ![Pointer] = Location]
    /\ grabCall' = GrabCall("MovePointer", Pointer, FALSE)
    /\ UNCHANGED <<GrabPointers, bTickOnlyWhileGrabbed, PrimaryComponentTick, HoverLocked,
                   WorldTime, ComponentLocation, Broadcasts, GrabBalance, Grasping>>
    /\ UNCHANGED <<btnVars, qryVars, visVars>>

\* The touch pointer a record refers to is destroyed and the engine clears the
\* record's reference to it.
PointerReferenceCleared(i) ==
    /\ QueryIdle
    /\ GrabPointers[i].Pointer # NullPointer
    /\ GrabPointers' = [GrabPointers EXCEPT ![i].Pointer = NullPointer]
    /\ grabCall' = GrabCall("PointerReferenceCleared", GrabPointers[i].Pointer, FALSE)
    /\ UNCHANGED <<bTickOnlyWhileGrabbed, PrimaryComponentTick, HoverLocked, WorldTime,
                   PointerLocation, ComponentLocation, Broadcasts, GrabBalance, Grasping>>
    /\ UNCHANGED <<btnVars, qryVars, visVars>>

MovePointerStep == \E p \in Pointers, l \in Locations : MovePointer(p, l)
PointerReferenceClearedStep == \E i \in 1..Len(GrabPointers) : PointerReferenceCleared(i)
QueryGraspStartedStep == QueryIdle /\ Len(GrabPointers) < MaxHeld /\ GraspStartedStep
QueryGraspEndedStep == QueryIdle /\ GraspEndedStep

NextQuery ==
    \/ QueryGraspStartedStep
    \/ QueryGraspEndedStep
    \/ MovePointerStep
    \/ PointerReferenceClearedStep
    \/ GetTargetStep
    \/ GetOffsetStep
    \/ GetCentroidStep
    \/ FindGrabPointerStep
    \/ ResetLocalGrabPointStep
    \/ QueryReturn

\* ------------------------------------------------------- button: icon and label

Colors == {"White", "Gray", "Red"}

\* FUxtTextBrush: its two colours.
MakeTextBrush(DefaultColor, DisabledColor) ==
    [DefaultColor |-> DefaultColor, DisabledColor |-> DisabledColor]

\* FUxtIconBrush: its text brush.
IconBrushes == { [TextBrush |-> MakeTextBrush(c, d)] : c \in Colors, d \in Colors }

LabelTextBrushes == { MakeTextBrush(c, "Gray") : c \in Colors }

\* ApplyTextBrushToText: the text render colour it leaves.
ApplyTextBrushToText(TextBrush) == TextBrush.DefaultColor

\* The handler that ran last and the one before it.
VisCall(op) == [op |-> op, prev |-> visCall.op]

\* OnConstruction: ConstructIcon and ConstructLabel for some brushes.
InitVisuals ==
    /\ IconBrush \in IconBrushes
    /\ LabelTextBrush \in LabelTextBrushes
    /\ IconTextRenderColor = ApplyTextBrushToText(IconBrush.TextBrush)
    /\ LabelTextRenderColor = ApplyTextBrushToText(LabelTextBrush)
    /\ FrontPlateVisibility = TRUE
    /\ visCall = [op |-> "None", prev |-> "None"]

VisualsUnchanged == UNCHANGED <<grabVars, btnVars, qryVars>>

OnButtonEnabled ==
    /\ FrontPlateVisibility' = TRUE
    /\ IconTextRenderColor' = IconBrush.TextBrush.DefaultColor
    /\ LabelTextRenderColor' = IconBrush.TextBrush.DefaultColor
    /\ visCall' = VisCall("OnButtonEnabled")
    /\ UNCHANGED <<IconBrush, LabelTextBrush>>
    /\ VisualsUnchanged

OnButtonDisabled ==
    /\ FrontPlateVisibility' = FALSE
    /\ IconTextRenderColor' = IconBrush.TextBrush.DisabledColor
    /\ LabelTextRenderColor' = IconBrush.TextBrush.DisabledColor
    /\ visCall' = VisCall("OnButtonDisabled")
    /\ UNCHANGED <<IconBrush, LabelTextBrush>>
    /\ VisualsUnchanged

\* SetIconBrush: the brush is stored and ConstructIcon applies it.
SetIconBrush(Brush) ==
    /\ IconBrush' = Brush
    /\ IconTextRenderColor' = ApplyTextBrushToText(Brush.TextBrush)
    /\ visCall' = VisCall("SetIconBrush")
    /\ UNCHANGED <<LabelTextBrush, LabelTextRenderColor, FrontPlateVisibility>>
    /\ VisualsUnchanged

\* SetLabelTextBrush: the brush is stored and ConstructLabel applies it.
SetLabelTextBrush(Brush) ==
    /\ LabelTextBrush' = Brush
    /\ LabelTextRenderColor' = ApplyTextBrushToText(Brush)
    /\ visCall' = VisCall("SetLabelTextBrush")
    /\ UNCHANGED <<IconBrush, IconTextRenderColor, FrontPlateVisibility>>
    /\ VisualsUnchanged

SetIconBrushStep == \E b \in IconBrushes : SetIconBrush(b)
SetLabelTextBrushStep == \E b \in LabelTextBrushes : SetLabelTextBrush(b)

NextVisuals ==
    \/ OnButtonEnabled
    \/ OnButtonDisabled
    \/ SetIconBrushStep
    \/ SetLabelTextBrushStep

\* ------------------------------------------------------- specifications

\* The grabbable component alone in front of a button that is left as constructed.
\* The icon and the label left as constructed from one pair of brushes.
InitVisualsFixed ==
    /\ InitVisuals
    /\ IconBrush = [TextBrush |-> MakeTextBrush("White", "Gray")]
    /\ LabelTextBrush = MakeTextBrush("White", "Gray")

InitGrab ==
    /\ InitGrabbable
    /\ InitButton
    /\ ButtonBrush = MakeBrush(<<"MatA", One, One, One>>)
    /\ InitQuery
    /\ InitVisualsFixed

\* The button alone beside a grabbable component that is left as constructed.
InitBtn ==
    /\ InitButton
    /\ InitGrabbable
    /\ bTickOnlyWhileGrabbed
    /\ ~PrimaryComponentTick
    /\ InitQuery
    /\ InitVisualsFixed

SpecGrab == InitGrab /\ [][NextGrab]_vars

SpecButton == InitBtn /\ [][NextButton]_vars

\* The focus animation alone (no press), with the engine's scheduling: while the
\* actor's tick is enabled the engine calls Tick every frame, and frames take time.
TickPositive == \E dt \in 1..MaxDeltaTime : Tick(dt)

NextFocus ==
    \/ TickStep
    \/ OnBeginFocus
    \/ SetButtonBrushStep
    \/ ButtonStateChangedStep

SpecFocus == InitBtn /\ [][NextFocus]_vars /\ WF_vars(TickPositive)

\* The grab queries called between grasps, pointer moves and pointer destruction.
InitQry ==
    /\ InitGrab
    /\ bTickOnlyWhileGrabbed
    /\ ~PrimaryComponentTick

SpecQuery == InitQry /\ [][NextQuery]_vars

\* The enable / disable handlers and the icon and label brush setters.
InitVis ==
    /\ InitGrabbable
    /\ bTickOnlyWhileGrabbed
    /\ ~PrimaryComponentTick
    /\ InitButton
    /\ ButtonBrush = MakeBrush(<<"MatA", One, One, One>>)
    /\ InitQuery
    /\ InitVisuals

SpecVisuals == InitVis /\ [][NextVisuals]_vars

\* A button of some brush that is pressed, focused and unfocused under the
\* engine's scheduling (Tick every frame while the actor's tick is enabled).
NextPulse ==
    \/ TickStep
    \/ OnButtonPressedStep
    \/ ButtonStateChangedStep

SpecPulse == InitBtn /\ [][NextPulse]_vars /\ WF_vars(TickPositive)

\* ------------------------------------------------------- properties: grabbable

\* Number of records GrabPointers holds for a pointer.
RecordsOf(arr, Pointer) == Cardinality({i \in 1..Len(arr) : arr[i].Pointer = Pointer})

\* C1: after any sequence of GraspStarted/GraspEnded calls, GrabPointers holds
\* exactly one record for every pointer whose last call was GraspStarted and none
\* for any other pointer, so no two records share a pointer.
C1_OneRecordPerGraspingPointer ==
    \A p \in Pointers : RecordsOf(GrabPointers, p) = IF Grasping[p] THEN 1 ELSE 0

\* The records in the order their grasps started.
StartOrdered(arr) ==
    \A i, j \in 1..Len(arr) : i < j => arr[i].StartTime <= arr[j].StartTime

\* arr is what is left of old when the records of Pointer are taken out, the
\* others in the order they had.
KeepsOrderWithout(arr, old, Pointer) ==
    \E f \in [1..Len(arr) -> 1..Len(old)] :
        /\ \A i \in 1..Len(arr) : old[f[i]] = arr[i]
        /\ \A i, j \in 1..Len(arr) : i < j => f[i] < f[j]
        /\ \A k \in 1..Len(old) :
               (old[k].Pointer # Pointer) <=> (\E i \in 1..Len(arr) : f[i] = k)

\* C2: the primary accessor is valid iff there is a record and then returns the
\* record of the earliest-started grasp still in progress, the secondary accessor
\* is valid iff there are two records and then returns the second earliest;
\* GraspEnded keeps the order of the remaining records, so that releasing the
\* primary pointer makes the former secondary the new primary.
C2_PrimarySecondaryByStartOrder ==
    LET primary == GetPrimaryGrabPointer(NoData)
        secondary == GetSecondaryGrabPointer(NoData)
        n == Len(GrabPointers)
        old == grabCall.before
    IN  /\ primary.Valid <=> (\E p \in Pointers : RecordsOf(GrabPointers, p) >= 1)
        /\ primary.Valid =>
               /\ Grasping[primary.PointerData.Pointer]
               /\ \A i \in 1..n : primary.PointerData.StartTime <= GrabPointers[i].StartTime
        /\ ~primary.Valid => primary.PointerData = NoData
        /\ secondary.Valid <=> n >= 2
        /\ secondary.Valid =>
               /\ Grasping[secondary.PointerData.Pointer]
               /\ primary.PointerData.StartTime <= secondary.PointerData.StartTime
               /\ \A i \in 2..n : secondary.PointerData.StartTime <= GrabPointers[i].StartTime
        /\ ~secondary.Valid => secondary.PointerData = NoData
        /\ StartOrdered(GrabPointers)
        /\ grabCall.op = "GraspEnded" =>
               /\ KeepsOrderWithout(GrabPointers, old, grabCall.Pointer)
               /\ (Len(old) >= 2 /\ old[1].Pointer = grabCall.Pointer
                                 /\ old[2].Pointer # grabCall.Pointer)
                      => (primary.Valid /\ primary.PointerData = old[2])

\* C2 witness: the primary pointer was released while another pointer held the
\* object, and the former secondary is now the primary.
C2_Witness ==
    /\ grabCall.op = "GraspEnded"
    /\ Len(grabCall.before) = 3
    /\ grabCall.before[1].Pointer = grabCall.Pointer
    /\ grabCall.before[2].Pointer # grabCall.Pointer
    /\ grabCall.before[2].StartTime < grabCall.before[3].StartTime
    /\ Len(GrabPointers) = 2
    /\ GetPrimaryGrabPointer(NoData).PointerData = grabCall.before[2]

\* C8: while bTickOnlyWhileGrabbed is set, after every GraspStarted, GraspEnded
\* or SetTickOnlyWhileGrabbed(true) the tick is enabled iff GrabPointers is not
\* empty; SetTickOnlyWhileGrabbed(false) enables the tick; while the flag is
\* false a grasp start or end leaves the tick as it was.
C8_TickOnlyWhileGrabbed ==
    LET grasp == grabCall.op \in {"GraspStarted", "GraspEnded"}
        set == grabCall.op = "SetTickOnlyWhileGrabbed"
    IN  /\ (bTickOnlyWhileGrabbed /\ (grasp \/ (set /\ grabCall.bEnable)))
               => (PrimaryComponentTick <=> Len(GrabPointers) > 0)
        /\ (set /\ ~grabCall.bEnable) => (PrimaryComponentTick /\ ~bTickOnlyWhileGrabbed)
        /\ (set /\ grabCall.bEnable) => bTickOnlyWhileGrabbed
        /\ (grasp /\ ~bTickOnlyWhileGrabbed) => PrimaryComponentTick = grabCall.tickBefore

\* C8 witness: the last grasp ended with the flag set and switched the tick off.
C8_Witness ==
    /\ grabCall.op = "GraspEnded"
    /\ bTickOnlyWhileGrabbed
    /\ grabCall.tickBefore
    /\ Len(grabCall.before) > 0
    /\ ~PrimaryComponentTick

\* C9: after any sequence of GraspStarted/GraspEnded calls a pointer is hover
\* locked iff GrabPointers holds a record for it.
C9_HoverLockedIffRecorded ==
    \A p \in Pointers : HoverLocked[p] <=> RecordsOf(GrabPointers, p) > 0

\* C9 witness: a pointer that held the object (twice over) was released and
\* unlocked while the other pointer stays locked.
C9_Witness ==
    /\ grabCall.op = "GraspEnded"
    /\ RecordsOf(grabCall.before, grabCall.Pointer) = 2
    /\ grabCall.lockedBefore[grabCall.Pointer]
    /\ ~HoverLocked[grabCall.Pointer]
    /\ \E p \in Pointers : HoverLocked[p]

\* C10: GraspStarted broadcasts exactly one begin-grab carrying the new record,
\* when the record is already in GrabPointers and the tick is not yet
\* re-evaluated; GraspEnded broadcasts one end-grab per record it removes,
\* carrying that record, and broadcasts, unlocks and removes nothing when the
\* pointer has no record; so end-grabs never outnumber begin-grabs of a pointer.
C10_BroadcastsMatchRecords ==
    LET old == grabCall.before
        n == Len(GrabPointers)
        gone == SelectSeq(old, LAMBDA d : d.Pointer = grabCall.Pointer)
    IN  /\ grabCall.op = "GraspStarted" =>
               /\ Len(Broadcasts) = 1
               /\ Broadcasts[1].delegate = "OnBeginGrab"
               /\ Broadcasts[1].data.Pointer = grabCall.Pointer
               /\ n = Len(old) + 1
               /\ Broadcasts[1].data = GrabPointers[n]
               /\ Broadcasts[1].recorded
               /\ Broadcasts[1].tickSeen = grabCall.tickBefore
        /\ grabCall.op = "GraspEnded" =>
               /\ Len(Broadcasts) = Len(old) - n
               /\ Len(Broadcasts) = Len(gone)
               /\ \A i \in 1..Len(Broadcasts) :
                      /\ Broadcasts[i].delegate = "OnEndGrab"
                      /\ Broadcasts[i].data = gone[i]
                      /\ Broadcasts[i].tickSeen = grabCall.tickBefore
               /\ RecordsOf(old, grabCall.Pointer) = 0 =>
                      /\ Broadcasts = <<>>
                      /\ GrabPointers = old
                      /\ HoverLocked = grabCall.lockedBefore
        /\ \A p \in Pointers :
               /\ GrabBalance[p] >= 0
               /\ GrabBalance[p] = RecordsOf(GrabPointers, p)

\* C10 witness: one GraspEnded removed two records of its pointer and broadcast
\* two end-grabs.
C10_Witness ==
    /\ grabCall.op = "GraspEnded"
    /\ Len(Broadcasts) = 2
    /\ Len(GrabPointers) = 1
    /\ bTickOnlyWhileGrabbed

\* ------------------------------------------------------- properties: grab queries

\* The queries that read the pointer of the record they are given.
RecordQueries ==
    {"GetTargetLocation", "GetTargetRotation", "GetTargetTransform",
     "GetLocationOffset", "GetRotationOffset", "ResetLocalGrabPoint"}

\* The last query met a stale (null) pointer reference.
MetStalePointer ==
    \/ queryCall.op \in RecordQueries /\ ~IsLive(queryCall.Data)
    \/ queryCall.op = "GetTargetCentroid"
           /\ \E i \in 1..Len(GrabPointers) : ~IsLive(GrabPointers[i])

\* The stale reference stood for the zero-valued default in the last query's result.
ZeroForStalePointer ==
    LET data == queryCall.Data
        t == queryCall.Transform
    IN  CASE queryCall.op = "GetTargetLocation" -> queryCall.Value = ZeroVector
          [] queryCall.op = "GetTargetRotation" -> queryCall.Value = ZeroRotator
          [] queryCall.op = "GetTargetTransform" -> queryCall.Value = Identity
          [] queryCall.op = "GetLocationOffset" ->
                 queryCall.Value = ZeroVector - GetGrabLocation(t, data)
          [] queryCall.op = "GetRotationOffset" ->
                 queryCall.Value = (ZeroRotator + Turn - GetGrabRotation(t, data)) % Turn
          [] queryCall.op = "GetTargetCentroid" ->
                 queryCall.Value * Max(Len(GrabPointers), 1)
                     <= SumTargetLocations(GrabPointers, 1).Value
          [] OTHER -> queryCall.PointerData = queryCall.Data

\* C11: every geometric query that reads a record's pointer (target location,
\* rotation and transform, location and rotation offset, target centroid,
\* ResetLocalGrabPoint) tests the reference first and, when it is stale, raises
\* the assertion and uses the zero-valued default instead of dereferencing it.
C11_StalePointerChecked ==
    MetStalePointer =>
        /\ queryCall.Ensures >= 1
        /\ ~queryCall.NullDereferenced
        /\ ~queryCall.Crashed
        /\ ZeroForStalePointer

\* C12: FindGrabPointer(P) reports success iff GrabPointers holds a record whose
\* pointer is P; on success PointerData and Index are the lowest-index matching
\* record and its position; on failure Index is -1 and the caller's PointerData
\* is left as it was; the lookup never changes GrabPointers.
C12_Step ==
    queryCall'.op = "FindGrabPointer" =>
        LET P == queryCall'.Pointer
            n == Len(GrabPointers)
            at == queryCall'.Index + 1
        IN  /\ GrabPointers' = GrabPointers
            /\ queryCall'.Success <=> (\E i \in 1..n : GrabPointers[i].Pointer = P)
            /\ queryCall'.Success =>
                   /\ at \in 1..n
                   /\ GrabPointers[at].Pointer = P
                   /\ \A j \in 1..(at - 1) : GrabPointers[j].Pointer # P
                   /\ queryCall'.PointerData = GrabPointers[at]
            /\ ~queryCall'.Success =>
                   /\ queryCall'.Index = -1
                   /\ queryCall'.PointerData = NoData

C12_FindLowestIndexMatch == [][C12_Step]_vars

\* C12 witness: two different records of one pointer are held and the lookup
\* returned the first of them.
C12_Witness ==
    /\ queryCall.op = "FindGrabPointer"
    /\ queryCall.Success
    /\ queryCall.Index = 0
    /\ Len(GrabPointers) = 2
    /\ GrabPointers[2].Pointer = queryCall.Pointer
    /\ GrabPointers[2] # GrabPointers[1]
    /\ queryCall.PointerData = GrabPointers[1]

\* The sum of a sequence of numbers.
RECURSIVE SeqSum(_)
SeqSum(xs) == IF xs = <<>> THEN 0 ELSE Head(xs) + SeqSum(Tail(xs))

\* Every record's pointer reference is live.
AllLive == \A i \in 1..Len(GrabPointers) : IsLive(GrabPointers[i])

\* The grab locations of the records under a transform, and their target locations.
GrabLocationsUnder(Transform) ==
    [i \in 1..Len(GrabPointers) |->
        Transform.Location + GrabPointers[i].LocalGrabPoint.Location]
TargetLocations ==
    [i \in 1..Len(GrabPointers) |-> PointerLocation[GrabPointers[i].Pointer]]

\* C13: GetGrabPointCentroid and GetTargetCentroid return the zero vector when
\* there is no grab pointer, and with n >= 1 valid records return the sum of the
\* n grab (resp. target) locations divided by n.
C13_CentroidIsMean ==
    LET n == Len(GrabPointers)
    IN  /\ queryCall.op = "GetGrabPointCentroid" =>
               /\ n = 0 => queryCall.Value = ZeroVector
               /\ n >= 1 =>
                      queryCall.Value = SeqSum(GrabLocationsUnder(queryCall.Transform)) \div n
        /\ queryCall.op = "GetTargetCentroid" =>
               /\ n = 0 => queryCall.Value = ZeroVector
               /\ (n >= 1 /\ AllLive) =>
                      /\ queryCall.Value = SeqSum(TargetLocations) \div n
                      /\ queryCall.Ensures = 0

\* C13 witness: two live pointers at different places hold the object and the
\* target centroid, taken last, lies between them.
C13_Witness ==
    /\ queryCall.op = "GetTargetCentroid"
    /\ Len(GrabPointers) = 2
    /\ AllLive
    /\ TargetLocations[1] < queryCall.Value
    /\ queryCall.Value < TargetLocations[2]
    /\ 2 * queryCall.Value = TargetLocations[1] + TargetLocations[2]

\* ------------------------------------------------------- properties: button

\* The last handler was a press and a pulse was in progress when it came.
PressWhilePulsing == btnCall'.op = "OnButtonPressed" /\ PulsePhase # "idle"

PulseFields == <<PulseTimer, PulseFadeTimer, MaterialIndex, PrePulseMaterial,
                 PulseMaterialInstance>>

\* C3: BeginPulse while a pulse is rising or fading, or with a null pointer,
\* returns false and leaves the pulse timers, MaterialIndex, the pre-pulse
\* material and the pulse material instance unchanged; a BeginPulse that returns
\* true sets both pulse timers to 0.
C3_Step ==
    btnCall'.op = "OnButtonPressed" =>
        /\ (PulsePhase # "idle" \/ btnCall'.Pointer = NullPointer)
               => (~btnCall'.ret /\ UNCHANGED PulseFields)
        /\ btnCall'.ret => (PulseTimer' = 0 /\ PulseFadeTimer' = 0)

C3_OnePulseAtATime == [][C3_Step]_vars

\* C3 witness: a press by a real pointer came while the pulse was fading and was
\* turned down.
C3_Witness ==
    /\ btnCall.op = "OnButtonPressed"
    /\ btnCall.Pointer # NullPointer
    /\ ~btnCall.ret
    /\ PulsePhase = "fading"
    /\ PulseFadeTimer > 0

\* C4 as claimed: a press by the other hand while a pulse is rising or fading
\* starts a second pulse with that hand's parameter set.
C4_OtherHandStep ==
    (PressWhilePulsing /\ btnCall'.Pointer # NullPointer
                       /\ HandIndex(btnCall'.Pointer) # MaterialIndex)
        => (btnCall'.ret /\ MaterialIndex' = HandIndex(btnCall'.Pointer))

C4_TwoSimultaneousPulses == [][C4_OtherHandStep]_vars

\* C4 as amended: the hand of the pointer that starts a pulse selects the
\* parameter set (1 for the left hand, 0 otherwise); a press by either hand while
\* that pulse is rising or fading starts no second pulse and leaves the pulse
\* and its parameter set as they are; a Tick writes parameters of that one set.
C4_AmendedStep ==
    /\ btnCall'.op = "OnButtonPressed" =>
           /\ PulsePhase # "idle" => (~btnCall'.ret /\ UNCHANGED PulseFields)
           /\ btnCall'.ret =>
                  /\ MaterialIndex' = IF btnCall'.Pointer = "Left" THEN 1 ELSE 0
                  /\ PulseMaterialInstance'.Name =
                         IF btnCall'.Pointer = "Left" THEN "LeftPulse" ELSE "RightPulse"
                  /\ \A i \in 1..Len(btnCall'.writes) :
                         btnCall'.writes[i].Parameter =
                             IF btnCall'.Pointer = "Left" THEN "Blob_Position"
                                                          ELSE "Blob_Position_2"
    /\ btnCall'.op = "Tick" =>
           /\ MaterialIndex' = MaterialIndex
           /\ \A i \in 1..Len(btnCall'.writes) :
                  btnCall'.writes[i].Parameter \in
                      (IF MaterialIndex = 1 THEN {"Blob_Pulse", "Blob_Fade"}
                                            ELSE {"Blob_Pulse_2", "Blob_Fade_2"})

C4_OneParameterSetPerPulse == [][C4_AmendedStep]_vars

\* C4 witness: the right hand's pulse is in progress and a press by the left
\* hand has just been turned down.
C4_Witness ==
    /\ btnCall.op = "OnButtonPressed"
    /\ btnCall.Pointer = "Left"
    /\ ~btnCall.ret
    /\ MaterialIndex = 0
    /\ PulsePhase # "idle"

\* C5 as claimed: each of the three timers lies in [0,1] or is the not-running
\* marker (-1 for the two pulse timers).
C5_TimersInUnitRange ==
    /\ PulseTimer = NotRunning \/ (0 <= PulseTimer /\ PulseTimer <= One)
    /\ PulseFadeTimer = NotRunning \/ (0 <= PulseFadeTimer /\ PulseFadeTimer <= One)
    /\ 0 <= FocusTimer /\ FocusTimer <= One

\* C5 as amended: FocusTimer lies in [0,1]; each pulse timer is -1 or at least
\* 0 and is not clamped at 1 (both are -1 together); the pulse and fade amounts
\* a Tick writes to the material lie in [0,1].
C5_TimersAmended ==
    /\ PulseTimer = NotRunning \/ PulseTimer >= 0
    /\ PulseFadeTimer = NotRunning \/ PulseFadeTimer >= 0
    /\ (PulseTimer = NotRunning) <=> (PulseFadeTimer = NotRunning)
    /\ 0 <= FocusTimer /\ FocusTimer <= One
    /\ btnCall.op = "Tick" =>
           \A i \in 1..Len(btnCall.writes) :
               0 <= btnCall.writes[i].Value /\ btnCall.writes[i].Value <= One

\* C5 witness: late in the fade both pulse timers are above 1 while the focus
\* animation, driven from a focused frame, is at 1.
C5_Witness ==
    /\ PulseTimer > One
    /\ PulseFadeTimer > One
    /\ FocusTimer = One
    /\ btnCall.op = "Tick"

Unfocused == ButtonState # "Focused"

\* C6 as claimed: while the button is unfocused every Tick with positive
\* DeltaTime drives FocusTimer down, until it is exactly 0.
C6_UnfocusedTickStep ==
    (btnCall'.op = "Tick" /\ btnCall'.DeltaTime > 0 /\ Unfocused /\ FocusTimer > 0)
        => FocusTimer' < FocusTimer

C6_FocusTimerSettles == [][C6_UnfocusedTickStep]_vars

\* What a frame of DeltaTime at the brush's speed adds to or takes off the timer.
FocusDelta(DeltaTime) == (DeltaTime * ButtonBrush.IconFocusSpeed) \div One

\* A Tick with positive DeltaTime at a positive speed moves the timer down when
\* unfocused and up when focused, stopping exactly at 0 and at 1, and reports
\* completion exactly when the timer is 0.
C6_TickStep ==
    btnCall'.op = "Tick" =>
        /\ btnCall'.FocusComplete <=> FocusTimer' = 0
        /\ (btnCall'.DeltaTime > 0 /\ ButtonBrush.IconFocusSpeed > 0) =>
               /\ Unfocused =>
                      /\ FocusTimer > FocusDelta(btnCall'.DeltaTime)
                             => FocusTimer' = FocusTimer - FocusDelta(btnCall'.DeltaTime)
                      /\ FocusTimer <= FocusDelta(btnCall'.DeltaTime) => FocusTimer' = 0
               /\ ~Unfocused =>
                      /\ FocusTimer' > 0
                      /\ ~btnCall'.FocusComplete
                      /\ FocusTimer' = One \/ FocusTimer' > FocusTimer

\* C6 as amended: for a positive IconFocusSpeed, once the button stays unfocused
\* ticks with positive DeltaTime lower FocusTimer by DeltaTime * IconFocusSpeed
\* each until it is exactly 0, where AnimateFocus returns true; while focused
\* the timer rises toward 1 and AnimateFocus returns false.
C6_FocusTimerSettlesAtPositiveSpeed ==
    /\ [][C6_TickStep]_vars
    /\ <>[](Unfocused /\ ButtonBrush.IconFocusSpeed > 0) => <>[](FocusTimer = 0)

\* C6 witness: an unfocused frame at positive speed has taken the timer part of
\* the way down.
C6_Witness ==
    /\ btnCall.op = "Tick"
    /\ btnCall.DeltaTime > 0
    /\ Unfocused
    /\ ButtonBrush.IconFocusSpeed > 0
    /\ 0 < FocusTimer /\ FocusTimer < One
    /\ ~btnCall.FocusComplete
    /\ bActorTickEnabled

\* C7: Tick disables ticking exactly when, after the frame's update, the pulse
\* is idle and FocusTimer is 0; a successful BeginPulse and every OnBeginFocus
\* enable ticking; so ticking disabled implies pulse idle and FocusTimer = 0.
C7_TicksOnlyWhileAnimating ==
    /\ ~bActorTickEnabled => (PulsePhase = "idle" /\ FocusTimer = 0)
    /\ btnCall.op = "Tick" =>
           (~bActorTickEnabled <=> (PulsePhase = "idle" /\ FocusTimer = 0))
    /\ btnCall.op = "Tick" =>
           /\ btnCall.PulseComplete <=> PulsePhase = "idle"
           /\ btnCall.FocusComplete <=> FocusTimer = 0
    /\ btnCall.op = "OnBeginFocus" => bActorTickEnabled
    /\ (btnCall.op = "OnButtonPressed" /\ btnCall.ret) => bActorTickEnabled

\* C7 witness: a pulse has run to its end and the Tick that found both
\* animations complete switched ticking off.
C7_Witness ==
    /\ btnCall.op = "Tick"
    /\ btnCall.PulseComplete
    /\ btnCall.FocusComplete
    /\ ~bActorTickEnabled
    /\ PrePulseMaterial # NullMaterial

\* C14: a pulse moves through its phases in the order idle -> rising -> fading
\* -> idle. A successful BeginPulse leaves it rising with PulseTimer 0; a rising
\* Tick writes the pulse amount and advances PulseTimer; the pulse enters fading
\* only when PulseTimer has passed 1, and then PulseFadeTimer is reset to 0 and a
\* fresh material instance is created; it becomes idle only from fading; no Tick
\* takes it from fading to rising or from rising to idle; AnimatePulse returns
\* true only when the pulse is idle.
C14_Step ==
    /\ PulsePhase' # PulsePhase =>
           \/ PulsePhase = "idle" /\ PulsePhase' = "rising"
                  /\ btnCall'.op = "OnButtonPressed" /\ btnCall'.ret
           \/ PulsePhase = "rising" /\ PulsePhase' = "fading" /\ btnCall'.op = "Tick"
           \/ PulsePhase = "fading" /\ PulsePhase' = "idle" /\ btnCall'.op = "Tick"
    /\ (btnCall'.op = "OnButtonPressed" /\ btnCall'.ret) =>
           /\ PulsePhase = "idle"
           /\ PulsePhase' = "rising"
           /\ PulseTimer' = 0
    /\ (btnCall'.op = "Tick" /\ PulsePhase = "rising") =>
           /\ PulseTimer' >= PulseTimer
           /\ btnCall'.DeltaTime > 0 => PulseTimer' > PulseTimer
           /\ btnCall'.writes[1] =
                  ParameterWrite(PulseMaterialInstance, PulseValueNames(MaterialIndex),
                                 PulseTimer)
           /\ PulsePhase' = "fading" <=> PulseTimer' > One
           /\ PulsePhase' = "fading" =>
                  /\ PulseFadeTimer' = 0
                  /\ PulseMaterialInstance' # PulseMaterialInstance
                  /\ PulseMaterialInstance' =
                         CreateDynamicMaterialInstance(PrePulseMaterial,
                                                       PulseInstanceFadeNames(MaterialIndex))
                  /\ FrontPlateSlot0' = PulseMaterialInstance'
    /\ (btnCall'.op = "Tick" /\ PulsePhase = "fading") =>
           PulsePhase' = "idle" <=> PulseFadeTimer > One
    /\ btnCall'.op = "Tick" =>
           /\ btnCall'.PulseComplete <=> PulsePhase' = "idle"
           /\ PulsePhase = "idle" => PulsePhase' = "idle"

C14_PulsePhasesInOrder == [][C14_Step]_vars

\* C14 witness: the Tick that took the rising timer past 1 has put the pulse in
\* its fading phase, with the fade timer at 0 and the fade instance in slot 0.
C14_Witness ==
    /\ btnCall.op = "Tick"
    /\ PulsePhase = "fading"
    /\ PulseFadeTimer = 0
    /\ Len(btnCall.writes) = 2
    /\ btnCall.writes[1].Parameter = PulseValueNames(MaterialIndex)
    /\ PulseMaterialInstance.Name = PulseInstanceFadeNames(MaterialIndex)
    /\ FrontPlateSlot0 = PulseMaterialInstance
    /\ ~btnCall.PulseComplete

\* The Tick that finds the fade timer past its end.
CompletingTick == btnCall'.op = "Tick" /\ PulsePhase = "fading" /\ PulseFadeTimer > One

\* C15: the Tick that completes a pulse restores front plate slot 0 to the
\* material that was in the slot when BeginPulse was called (which BeginPulse
\* kept as the pre-pulse material), clears the pulse material instance and sets
\* both pulse timers to the not-running marker; the pre-pulse material is not
\* changed between BeginPulse and completion.
C15_Step ==
    /\ (btnCall'.op = "OnButtonPressed" /\ btnCall'.ret) =>
           PrePulseMaterial' = FrontPlateSlot0
    /\ PulsePhase # "idle" => PrePulseMaterial' = PrePulseMaterial
    /\ CompletingTick =>
           /\ FrontPlateSlot0' = PrePulseMaterial
           /\ PulseMaterialInstance' = NullMaterial
           /\ PulseTimer' = NotRunning
           /\ PulseFadeTimer' = NotRunning
           /\ btnCall'.PulseComplete
    /\ (btnCall'.op = "Tick" /\ PulsePhase # "idle" /\ ~CompletingTick) =>
           /\ ~btnCall'.PulseComplete
           /\ PulseTimer' # NotRunning
           /\ PulseFadeTimer' # NotRunning
           /\ PulseMaterialInstance' # NullMaterial

C15_CompletionRestoresMaterial == [][C15_Step]_vars

\* C15 witness: a pulse has completed and slot 0 holds the pre-pulse material
\* again, although the button brush was changed while the pulse ran.
C15_Witness ==
    /\ btnCall.op = "Tick"
    /\ btnCall.PulseComplete
    /\ PulseTimer = NotRunning
    /\ PulseFadeTimer = NotRunning
    /\ PulseMaterialInstance = NullMaterial
    /\ FrontPlateSlot0 = PrePulseMaterial
    /\ PrePulseMaterial = Asset("MatA")
    /\ ButtonBrush.FrontPlateMaterial = Asset("MatB")

\* What a Tick of DeltaTime adds to a pulse timer of configured duration D.
PulseAdvance(D, DeltaTime) == IF D > 0 THEN (DeltaTime * One) \div D ELSE DeltaTime

\* C16: in a Tick the rising timer grows by DeltaTime / PulseTime and the fade
\* timer by DeltaTime / PulseFadeTime for a positive configured duration, and by
\* exactly DeltaTime (as for a duration of 1 second) for a duration <= 0; no Tick
\* moves a running pulse timer backwards.
C16_Step ==
    btnCall'.op = "Tick" =>
        LET dt == btnCall'.DeltaTime
        IN  /\ PulsePhase = "rising" =>
                   /\ PulseTimer' = PulseTimer + PulseAdvance(ButtonBrush.PulseTime, dt)
                   /\ PulseTimer' >= PulseTimer
                   /\ ButtonBrush.PulseTime <= 0 =>
                          PulseTimer' = PulseTimer + PulseStep(One, dt)
                   /\ PulseFadeTimer' = 0
            /\ (PulsePhase = "fading" /\ ~CompletingTick) =>
                   /\ PulseFadeTimer' =
                          PulseFadeTimer + PulseAdvance(ButtonBrush.PulseFadeTime, dt)
                   /\ PulseFadeTimer' >= PulseFadeTimer
                   /\ ButtonBrush.PulseFadeTime <= 0 =>
                          PulseFadeTimer' = PulseFadeTimer + PulseStep(One, dt)
                   /\ PulseTimer' = PulseTimer
            /\ PulsePhase = "idle" =>
                   (PulseTimer' = PulseTimer /\ PulseFadeTimer' = PulseFadeTimer)

C16_TimersAdvanceByRate == [][C16_Step]_vars

\* C16 witness: under a brush with a negative PulseTime the first Tick of a
\* pulse, of DeltaTime 2, has taken the rising timer from 0 to exactly 2.
C16_Witness ==
    /\ btnCall.op = "Tick"
    /\ btnCall.DeltaTime = 2
    /\ ButtonBrush.PulseTime < 0
    /\ Len(btnCall.writes) = 1
    /\ btnCall.writes[1].Parameter = PulseValueNames(MaterialIndex)
    /\ btnCall.writes[1].Value = 0
    /\ PulseTimer = 2

\* C17 as claimed: every started pulse reaches idle, and once the button stays
\* unfocused FocusTimer reaches 0 and ticking is disabled.
C17_PulseAndTickingEnd ==
    /\ (PulsePhase # "idle") ~> (PulsePhase = "idle")
    /\ <>[]Unfocused
           => (bActorTickEnabled ~> (~bActorTickEnabled /\ FocusTimer = 0))

\* C17 as amended: every started pulse reaches idle while Tick keeps being
\* called with positive DeltaTime; once the button stays unfocused under a brush
\* of positive IconFocusSpeed, FocusTimer reaches 0 and ticking is disabled with
\* the pulse idle.
C17_PulseEndsAndTickingEndsAtPositiveSpeed ==
    /\ (PulsePhase # "idle") ~> (PulsePhase = "idle")
    /\ <>[](Unfocused /\ ButtonBrush.IconFocusSpeed > 0)
           => (bActorTickEnabled
                   ~> (~bActorTickEnabled /\ FocusTimer = 0 /\ PulsePhase = "idle"))

\* C17 witness: under a brush of positive focus speed a pulse has run to its end
\* on an unfocused button and its last Tick has switched ticking off.
C17_Witness ==
    /\ btnCall.op = "Tick"
    /\ btnCall.DeltaTime > 0
    /\ btnCall.PulseComplete
    /\ btnCall.FocusComplete
    /\ Unfocused
    /\ ButtonBrush.IconFocusSpeed > 0
    /\ PrePulseMaterial # NullMaterial
    /\ FrontPlateSlot0 = PrePulseMaterial
    /\ PulsePhase = "idle"
    /\ FocusTimer = 0
    /\ ~bActorTickEnabled

\* C18: whenever no pulse is in progress, front plate slot 0 holds the front
\* plate material of the button brush applied last, whatever the interleaving of
\* SetButtonBrush, BeginPulse and Tick (a brush that names no front plate
\* material leaves the slot as it is and is not counted).
C18_IdleSlotHoldsBrushMaterial ==
    (PulsePhase = "idle" /\ ButtonBrush.FrontPlateMaterial # NullMaterial)
        => FrontPlateSlot0 = ButtonBrush.FrontPlateMaterial

\* ------------------------------------------------------- properties: icon and label

\* C19: after OnButtonDisabled followed by OnButtonEnabled the front plate is
\* visible again, the icon has the default colour of the icon brush and the
\* label has the default colour of the label text brush, as at construction.
C19_EnableRestoresColors ==
    (visCall.op = "OnButtonEnabled" /\ visCall.prev = "OnButtonDisabled") =>
        /\ FrontPlateVisibility
        /\ IconTextRenderColor = IconBrush.TextBrush.DefaultColor
        /\ LabelTextRenderColor = LabelTextBrush.DefaultColor

====
